---- MODULE Spec2Model ----
(***************************************************************************)
(* Formant analysis pipeline of audioforge:                                *)
(*   find_stable_vowel_segment -> pre-emphasis -> _lpc -> np.roots ->      *)
(*   formant selection (Spec), _lpc on its own (LpcSpec), the scorer       *)
(*   calculate_vowel_accuracy (ScoreSpec) and the streamlit app, one       *)
(*   script run per action (AppSpec).                                      *)
(*                                                                         *)
(* Number representation.  The program computes in IEEE floating point;    *)
(* the model computes exactly:                                             *)
(*   - samples are integers, pre-emphasised samples are held in hundredths *)
(*     (pre_emphasis is 97/100);                                           *)
(*   - an LPC coefficient is a rational <<num, den>> with den > 0, or      *)
(*     Opaque, a finite real whose value the model does not track (the     *)
(*     solution of a Yule-Walker system of order >= 2 whose entries are    *)
(*     too large for exact arithmetic);                                    *)
(*   - a root is <<re, im, den>>, the complex number (re + im*j)/den;      *)
(*   - a frequency is held in eighths of a hertz, in the app in hertz;     *)
(*   - a score or distance is (a + b*sqrt(n))/c, written <<a, b, n, c>>.   *)
(* Rounding and overflow of floating point are not modelled.               *)
(***************************************************************************)
EXTENDS Integers, Sequences, FiniteSets, TLC

\* ---------------------------------------------------------------- bounds
MaxLen == 6          \* longest recording, in samples
MaxDur == 23         \* longest segment_duration, in quarter sample periods
MaxOrder == 2        \* largest lpc_order
MaxFormants == 2     \* largest n_formants
MaxLpcLen == 4       \* longest sample array handed to _lpc on its own

\* ------------------------------------------------------ program constants
sr == 22050          \* sample rate
PreNum == 97         \* pre_emphasis = PreNum / PreDen
PreDen == 100

Amplitudes == {0, 1}
Orders == -1..MaxOrder
FormantCounts == -1..MaxFormants
Durations == 0..MaxDur

BoundedSeq(S, n) == UNION {[1..k -> S] : k \in 0..n}

\* ------------------------------------------------------- Python helpers
None == <<>>
Some(v) == <<v>>

NoExc == <<>>
Exc(kind, where) == <<kind, where>>

Min(a, b) == IF a < b THEN a ELSE b
Max(a, b) == IF a > b THEN a ELSE b

\* A slice bound as Python resolves it against a sequence of length n.
SliceIndex(i, n) ==
  IF i < 0 THEN Max(i + n, 0) ELSE Min(i, n)

\* s[start:stop]
PySlice(s, start, stop) ==
  LET lo == SliceIndex(start, Len(s))
      hi == SliceIndex(stop, Len(s))
  IN  IF lo < hi THEN SubSeq(s, lo + 1, hi) ELSE <<>>

\* list(range(start, stop, step)) for step > 0
RECURSIVE PyRange(_, _, _)
PyRange(start, stop, step) ==
  IF start >= stop THEN <<>>
  ELSE <<start>> \o PyRange(start + step, stop, step)

RECURSIVE SumSeq(_)
SumSeq(s) == IF s = <<>> THEN 0 ELSE Head(s) + SumSeq(Tail(s))

\* np.sum(segment ** 2)
Energy(s) == SumSeq([k \in 1..Len(s) |-> s[k] * s[k]])

\* ------------------------------------------- find_stable_vowel_segment
\* segment_duration * sr rounded to the nearest integer, ties to even
PyRound(dur) ==
  LET whole == dur \div 4
      rest == dur % 4
  IN  IF rest < 2 THEN whole
      ELSE IF rest > 2 THEN whole + 1
      ELSE IF whole % 2 = 0 THEN whole ELSE whole + 1

\* int(segment_duration * sr), segment_duration in quarter sample periods
\* (segment_duration * sr = dur / 4)
SegmentSamples(dur) == dur \div 4

HopLength(dur) == SegmentSamples(dur) \div 4

\* the list `energies`: one (i, energy) pair per window start
Energies(yy, dur) ==
  LET n == SegmentSamples(dur)
      starts == PyRange(0, Len(yy) - n, HopLength(dur))
  IN  [k \in 1..Len(starts) |->
         <<starts[k], Energy(PySlice(yy, starts[k], starts[k] + n))>>]

\* a maximum search in which a later equal element wins
ExceedsOrEquals(e, best) == e >= best

\* whether a later element replaces the running maximum
Exceeds(e, best) == e > best

\* max(energies, key=lambda x: x[1]): the first element with the largest key
RECURSIVE MaxFrom(_, _, _)
MaxFrom(es, k, best) ==
  IF k > Len(es) THEN best
  ELSE MaxFrom(es, k + 1, IF Exceeds(es[k][2], best[2]) THEN es[k] ELSE best)

PyMax(es) == MaxFrom(es, 2, es[1])

\* the fallback slice y[mid - n//2 : mid + n//2]
MiddleStart(yy, dur) == (Len(yy) \div 2) - (SegmentSamples(dur) \div 2)
MiddleStop(yy, dur) == (Len(yy) \div 2) + (SegmentSamples(dur) \div 2)

MiddleSegment(yy, dur) == PySlice(yy, MiddleStart(yy, dur), MiddleStop(yy, dur))

\* ------------------------------------------------------- pre-emphasis
\* the input array after y[1:] -= pre_emphasis * y[:-1]: overwritten in place
InputAfterInPlacePreEmphasis(yy) ==
  LET rest == PySlice(yy, 1, Len(yy))
      prev == PySlice(yy, 0, -1)
  IN  <<PreDen * yy[1]>> \o
      [k \in 1..Len(rest) |-> PreDen * rest[k] - PreNum * prev[k]]

\* the input array after line 43: y[1:] - pre_emphasis * y[:-1] and np.append
\* build new arrays, the slices of y are only read
InputAfterPreEmphasis(yy) == yy

\* np.append(y[0], y[1:] + pre_emphasis * y[:-1]), in hundredths
PreEmphasisAdding(yy) ==
  LET rest == PySlice(yy, 1, Len(yy))
      prev == PySlice(yy, 0, -1)
  IN  <<PreDen * yy[1]>> \o
      [k \in 1..Len(rest) |-> PreDen * rest[k] + PreNum * prev[k]]

\* np.append(y[0], y[1:] - pre_emphasis * y[:-1]), in hundredths
PreEmphasis(yy) ==
  LET rest == PySlice(yy, 1, Len(yy))
      prev == PySlice(yy, 0, -1)
  IN  <<PreDen * yy[1]>> \o
      [k \in 1..Len(rest) |-> PreDen * rest[k] - PreNum * prev[k]]

\* ---------------------------------------------------------------- _lpc
One == <<1, 1>>
Zero == <<0, 1>>
Opaque == <<0, 0>>

IsZero(c) == c[1] = 0 /\ c[2] # 0

\* c, the sign kept
NotNegated(c) == c

\* -c
Neg(c) == <<0 - c[1], c[2]>>

\* np.zeros(k)
Zeros(k) == [i \in 1..k |-> Zero]

\* np.correlate(v, v, mode='full'): lags -(N-1) .. N-1
FullCorrelate(v) ==
  LET N == Len(v)
  IN  [k \in 1..(2 * N - 1) |->
         LET lag == IF k >= N THEN k - N ELSE N - k
         IN  SumSeq([i \in 1..(N - lag) |-> v[i] * v[i + lag]])]

\* r = r[len(r)//2 + 1:]: the zero lag dropped
AutocorrelationFromLagOne(v) ==
  LET full == FullCorrelate(v)
  IN  PySlice(full, Len(full) \div 2 + 1, Len(full))

\* r = np.correlate(y, y, mode='full'); r = r[len(r)//2:]
Autocorrelation(v) ==
  LET full == FullCorrelate(v)
  IN  PySlice(full, Len(full) \div 2, Len(full))

\* scipy.linalg.solve_toeplitz(c, b): the set of its possible outcomes, each
\* an exception or a solution vector.
\*  - b and c of different lengths: ValueError('Incompatible dimensions.')
\*  - an empty system: the result depends on the SciPy release (an empty
\*    vector, or an error from the Levinson kernel)
\*  - c[0] == 0: LinAlgError('Singular principal minor')
\*  - order 1: x = b[0] / c[0]
\*  - order 2 with entries small enough for exact arithmetic: the solution
\*    of [[c0, c1], [c1, c0]] x = b, or LinAlgError when c0^2 = c1^2
\*  - otherwise: the Levinson recursion yields a vector of the order's
\*    length whose values are not tracked, or LinAlgError when a later
\*    principal minor evaluates to zero.
Rational(num, den) == IF den < 0 THEN <<0 - num, 0 - den>> ELSE <<num, den>>

SmallEntries(v) == \A i \in 1..Len(v) : v[i] \in -100..100

SolveToeplitz(c, b) ==
  IF Len(b) # Len(c)
  THEN {[exc |-> "ValueError", x |-> <<>>]}
  ELSE IF Len(c) = 0
  THEN {[exc |-> "", x |-> <<>>], [exc |-> "LinAlgError", x |-> <<>>]}
  ELSE IF c[1] = 0
  THEN {[exc |-> "LinAlgError", x |-> <<>>]}
  ELSE IF Len(c) = 1
  THEN {[exc |-> "", x |-> << <<b[1], c[1]>> >>]}
  ELSE IF Len(c) = 2 /\ SmallEntries(c) /\ SmallEntries(b)
  THEN IF c[1] * c[1] = c[2] * c[2]
       THEN {[exc |-> "LinAlgError", x |-> <<>>]}
       ELSE {[exc |-> "",
              x |-> << Rational(b[1] * c[1] - b[2] * c[2],
                                c[1] * c[1] - c[2] * c[2]),
                       Rational(b[2] * c[1] - b[1] * c[2],
                                c[1] * c[1] - c[2] * c[2]) >>]}
  ELSE {[exc |-> "", x |-> [i \in 1..Len(c) |-> Opaque]],
        [exc |-> "LinAlgError", x |-> <<>>]}

\* a handler written `except LinAlgError:` instead of the bare `except:`
CaughtLinAlgOnly(exc) == exc = "LinAlgError"

\* the bare `except:` of _lpc catches every exception
Caught(exc) == TRUE

\* a fallback that forgets the leading 1
FallbackNoLead(order) == Zeros(order)

\* np.concatenate([[1], np.zeros(order)])
Fallback(order) == <<One>> \o Zeros(order)

\* FormantExtractor._lpc(y, order): the set of its possible outcomes
Lpc(v, order) ==
  IF Len(v) = 0
  THEN \* np.correlate rejects an empty array, outside the try block
       {[exc |-> "ValueError", coeffs |-> <<>>]}
  ELSE LET r == Autocorrelation(v)
           R == PySlice(r, 0, order)
           r_rest == PySlice(r, 1, order + 1)
       IN  { IF o.exc = ""
             THEN [exc |-> "", coeffs |-> <<One>> \o [i \in 1..Len(o.x) |-> Neg(o.x[i])]]
             ELSE IF ~Caught(o.exc)
             THEN [exc |-> o.exc, coeffs |-> <<>>]
             ELSE IF order < 0
             THEN \* np.zeros(order): negative dimensions are not allowed
                  [exc |-> "ValueError", coeffs |-> <<>>]
             ELSE [exc |-> "", coeffs |-> Fallback(order)]
             : o \in SolveToeplitz(R, r_rest) }

\* ------------------------------------------------------------ np.roots
\* The values np.roots may return for a polynomial whose coefficients the
\* model does not track: on, inside and outside the unit circle, with
\* positive, zero and negative angles.
RootGrid ==
  << <<-1, 0, 2>>, <<1, 0, 2>>, <<1, 1, 2>>, <<1, -1, 2>>, <<-1, 1, 2>>,
     <<-2, 0, 2>>, <<2, 2, 2>> >>

ZeroRoot == <<0, 0, 1>>

\* the root of p0*z + p1, p0 and p1 rationals, p0 # 0
LinearRoot(p0, p1) ==
  LET num == (0 - p1[1]) * p0[2]
      den == p1[2] * p0[1]
  IN  IF den < 0 THEN <<0 - num, 0, 0 - den>> ELSE <<num, 0, den>>

\* the root sequences of `d` grid values, up to order
GridRoots(d) ==
  { [i \in 1..d |-> RootGrid[f[i]]] :
      f \in { g \in [1..d -> 1..Len(RootGrid)] :
                \A i \in 1..(d - 1) : g[i] <= g[i + 1] } }

\* np.roots(p): strip leading and trailing zero coefficients, take the
\* eigenvalues of the companion matrix, append one zero root per stripped
\* trailing zero.  The set of possible results.
NpRoots(p) ==
  LET non_zero == {i \in 1..Len(p) : ~IsZero(p[i])}
  IN  IF non_zero = {} THEN {<<>>}
      ELSE LET first == CHOOSE i \in non_zero : \A j \in non_zero : i <= j
               last == CHOOSE i \in non_zero : \A j \in non_zero : i >= j
               trailing_zeros == Len(p) - last
               q == SubSeq(p, first, last)
               N == Len(q)
               eig == IF N <= 1 THEN {<<>>}
                      ELSE IF N = 2 /\ q[1] # Opaque /\ q[2] # Opaque
                      THEN {<<LinearRoot(q[1], q[2])>>}
                      ELSE GridRoots(N - 1)
           IN  {e \o [i \in 1..trailing_zeros |-> ZeroRoot] : e \in eig}

\* ------------------------------------------------- formant selection
\* np.abs(root) <= 1
InsideOrOnUnitCircle(root) ==
  IF root[2] = 0
  THEN (IF root[1] < 0 THEN 0 - root[1] ELSE root[1]) <= root[3]
  ELSE root[1] * root[1] + root[2] * root[2] <= root[3] * root[3]

\* np.abs(root) < 1
InsideUnitCircle(root) ==
  IF root[2] = 0
  THEN (IF root[1] < 0 THEN 0 - root[1] ELSE root[1]) < root[3]
  ELSE root[1] * root[1] + root[2] * root[2] < root[3] * root[3]

\* np.arctan2(imag, real) in eighths of a turn (pi/4), for a value on one of
\* the eight compass directions or zero
\* the angle counted counter-clockwise from the positive real axis, in 0..7
UnwrappedAngle(imag, real) ==
  IF imag = 0 THEN (IF real < 0 THEN 4 ELSE 0)
  ELSE IF imag > 0 THEN (IF real > 0 THEN 1 ELSE IF real = 0 THEN 2 ELSE 3)
  ELSE (IF real > 0 THEN 7 ELSE IF real = 0 THEN 6 ELSE 5)

Arctan2(imag, real) ==
  IF imag = 0 THEN (IF real < 0 THEN 4 ELSE 0)
  ELSE IF imag > 0 THEN (IF real > 0 THEN 1 ELSE IF real = 0 THEN 2 ELSE 3)
  ELSE (IF real > 0 THEN -1 ELSE IF real = 0 THEN -2 ELSE -3)

\* angle * (self.sr / (2 * np.pi)), in eighths of a hertz, for an extractor
\* constructed with sample rate rate
FrequencyAt(root, rate) == Arctan2(root[2], root[1]) * rate

\* the same for the default extractor, FormantExtractor()
Frequency(root) == FrequencyAt(root, sr)

\* freqs >= 0
IsNonNegative(f) == f >= 0

\* freqs > 0
IsPositive(f) == f > 0

\* roots[np.abs(roots) < 1]
RECURSIVE KeepInside(_)
KeepInside(rs) ==
  IF rs = <<>> THEN <<>>
  ELSE (IF InsideUnitCircle(Head(rs)) THEN <<Head(rs)>> ELSE <<>>)
       \o KeepInside(Tail(rs))

\* freqs[freqs > 0]
RECURSIVE KeepPositive(_)
KeepPositive(fs) ==
  IF fs = <<>> THEN <<>>
  ELSE (IF IsPositive(Head(fs)) THEN <<Head(fs)>> ELSE <<>>)
       \o KeepPositive(Tail(fs))

\* insertion keeping a descending order
RECURSIVE InsertDescending(_, _)
InsertDescending(v, s) ==
  IF s = <<>> THEN <<v>>
  ELSE IF v >= Head(s) THEN <<v>> \o s
  ELSE <<Head(s)>> \o InsertDescending(v, Tail(s))

RECURSIVE Insert(_, _)
Insert(v, s) ==
  IF s = <<>> THEN <<v>>
  ELSE IF v <= Head(s) THEN <<v>> \o s
  ELSE <<Head(s)>> \o Insert(v, Tail(s))

\* np.sort(freqs)
RECURSIVE NpSort(_)
NpSort(s) == IF s = <<>> THEN <<>> ELSE Insert(Head(s), NpSort(Tail(s)))

\* no padding
NoPad(fs, n) == fs

\* while len(formants) < n_formants: formants.append(None)
RECURSIVE PadNone(_, _)
PadNone(fs, n) == IF Len(fs) < n THEN PadNone(Append(fs, None), n) ELSE fs

\* lines 51-73 of extract_formants: from the roots to the formant list, for
\* an extractor constructed with sample rate rate
SelectFormantsAt(rs, n, rate) ==
  LET inside == KeepInside(rs)
      freqs == [k \in 1..Len(inside) |-> FrequencyAt(inside[k], rate)]
      positive == KeepPositive(freqs)
      sorted == NpSort(positive)
      first_n == PySlice(sorted, 0, n)
  IN  PadNone([k \in 1..Len(first_n) |-> Some(first_n[k])], n)

\* the same for the default extractor
SelectFormants(rs, n) == SelectFormantsAt(rs, n, sr)

\* -------------------------------------------- calculate_vowel_accuracy
\* The scorer's values are kept exact as (a + b * sqrt(n)) / c, written
\* <<a, b, n, c>> with c > 0, in lowest terms; an integer k is <<k, 0, 0, 1>>.
RECURSIVE Gcd(_, _)
Gcd(a, b) == IF b = 0 THEN a ELSE Gcd(b, a % b)

Abs(a) == IF a < 0 THEN 0 - a ELSE a

SurdInt(k) == <<k, 0, 0, 1>>

SurdNormalise(x) ==
  IF x[2] = 0 \/ x[3] = 0
  THEN LET g == Gcd(Abs(x[1]), x[4])
       IN  <<x[1] \div g, 0, 0, x[4] \div g>>
  ELSE LET g == Gcd(Gcd(Abs(x[1]), Abs(x[2])), x[4])
       IN  <<x[1] \div g, x[2] \div g, x[3], x[4] \div g>>

\* x / m, m a positive integer
SurdDivInt(x, m) == SurdNormalise(<<x[1], x[2], x[3], x[4] * m>>)

\* x * m
SurdMulInt(x, m) == SurdNormalise(<<x[1] * m, x[2] * m, x[3], x[4]>>)

\* k - x
SurdIntMinus(k, x) == SurdNormalise(<<k * x[4] - x[1], 0 - x[2], x[3], x[4]>>)

\* x > 0
SurdPositive(x) ==
  IF x[2] = 0 \/ x[3] = 0 THEN x[1] > 0
  ELSE IF x[2] > 0 THEN x[1] >= 0 \/ x[2] * x[2] * x[3] > x[1] * x[1]
  ELSE x[1] > 0 /\ x[1] * x[1] > x[2] * x[2] * x[3]

\* x >= 0
SurdNonNegative(x) ==
  IF x[2] = 0 \/ x[3] = 0 THEN x[1] >= 0
  ELSE IF x[2] > 0 THEN x[1] >= 0 \/ x[2] * x[2] * x[3] >= x[1] * x[1]
  ELSE x[1] >= 0 /\ x[1] * x[1] >= x[2] * x[2] * x[3]

\* (f1 - target_f2)**2 + (f2 - target_f1)**2: the targets taken crosswise
CrossedSquaredDistance(ff1, ff2, tf1, tf2) ==
  (ff1 - tf2) * (ff1 - tf2) + (ff2 - tf1) * (ff2 - tf1)

\* (f1 - target_f1)**2 + (f2 - target_f2)**2
SquaredDistance(ff1, ff2, tf1, tf2) ==
  (ff1 - tf1) * (ff1 - tf1) + (ff2 - tf2) * (ff2 - tf2)

\* np.sqrt(k), k a non-negative integer
NpSqrt(k) == IF k = 0 THEN SurdInt(0) ELSE <<0, 1, k, 1>>

\* a normalisation distance twice as long
DoubledMaxDistance == 2 * 1000

\* max_distance = 1000
max_distance == 1000

\* the value itself, not clamped at zero
NoClamp(x) == x

\* max(0, x): the first argument unless the second is greater
PyMaxZero(x) == IF SurdPositive(x) THEN x ELSE SurdInt(0)

\* calculate_vowel_accuracy: <<accuracy, distance>>
CalculateVowelAccuracy(ff1, ff2, tf1, tf2) ==
  LET dist == NpSqrt(SquaredDistance(ff1, ff2, tf1, tf2))
      acc == PyMaxZero(SurdIntMinus(100,
               SurdMulInt(SurdDivInt(dist, max_distance), 100)))
  IN  <<acc, dist>>

\* frequencies, in hertz, the scorer is called with
ScoreHz == {0, 280, 600, 800, 2250}

\* ------------------------------------------------------ streamlit app
\* Session state is a record ss = [language_mode, recorded_vowels,
\* visualizer, audio_data]; a dict is a function on its keys; the widgets of
\* a script run are a record w = [mode, uploaded_file, language,
\* selected_vowel, audio_bytes], with "" for no file, no new selection and
\* no recording.  A recording is named after what its analysis finds, an
\* uploaded file after what it holds.
MaxPoints == 2       \* most entries of the visualizer's list

\* VOWEL_SYSTEMS: two of its languages, with two of their vowels each
VOWEL_SYSTEMS ==
  [l \in {"English (American)", "Spanish"} |->
     IF l = "English (American)"
     THEN [v \in {"/i/ (ee)", "/u/ (oo)"} |->
             IF v = "/i/ (ee)"
             THEN [ipa |-> "/i/", target_f1 |-> 280, target_f2 |-> 2250]
             ELSE [ipa |-> "/u/", target_f1 |-> 300, target_f2 |-> 870]]
     ELSE [v \in {"/i/", "/u/"} |->
             IF v = "/i/"
             THEN [ipa |-> "/i/", target_f1 |-> 240, target_f2 |-> 2400]
             ELSE [ipa |-> "/u/", target_f1 |-> 300, target_f2 |-> 700]]]

\* list(vowels.keys())[0], what a newly shown vowel selectbox returns
FirstVowel(l) == IF l = "English (American)" THEN "/i/ (ee)" ELSE "/i/"

\* the sample rate picked in the sidebar, the first of [16000, 22050, 44100]
selected_sr == 16000

Modes == {"Vowel Space Analysis", "Practice Mode"}

EmptyDict == [k \in {} |-> None]

\* d[k] = v
DictSet(d, k, v) ==
  [x \in (DOMAIN d) \cup {k} |-> IF x = k THEN v ELSE d[x]]

\* recordings: two formants, one formant, bytes that librosa cannot decode
Recordings == {"vowel", "hum", "junk"}

\* save_audio_to_array returns an array
Decodable(a) == a # "junk"

\* the roots np.roots finds for the recording's stable segment
AudioRoots(a) ==
  IF a = "vowel"
  THEN << <<1, 1, 2>>, <<1, -1, 2>>, <<-1, 1, 2>>, <<-1, -1, 2>> >>
  ELSE IF a = "hum" THEN << <<1, 1, 2>>, <<1, -1, 2>> >>
  ELSE <<>>

\* eighths of a hertz to hertz
InHertz(fs) ==
  [k \in 1..Len(fs) |-> IF fs[k] = None THEN None ELSE Some(fs[k][1] \div 8)]

\* FormantExtractor(sr=sr).extract_formants(segment, n_formants=n), in hertz
ExtractFormantsHz(a, n) ==
  InHertz(SelectFormantsAt(AudioRoots(a), n, selected_sr))

\* session files a user may upload
SessionFiles ==
  {"spanish", "garbage", "no language", "broken recording", "null formant",
   "zero third"}

\* what json.loads makes of the file
SessionFile(name) ==
  IF name = "spanish"
  THEN [parses |-> TRUE, keys |-> {"session_name", "language", "recordings"},
        session_name |-> "Spanish vowels", language |-> "Spanish",
        recordings |-> << [keys |-> {"vowel", "f1", "f2", "f3"},
                           vowel |-> "/i/", f1 |-> Some(250),
                           f2 |-> Some(2300), f3 |-> None] >>]
  ELSE IF name = "no language"
  THEN [parses |-> TRUE, keys |-> {"recordings"},
        session_name |-> "", language |-> "", recordings |-> <<>>]
  ELSE IF name = "broken recording"
  THEN [parses |-> TRUE, keys |-> {"session_name", "language", "recordings"},
        session_name |-> "Spanish vowels", language |-> "English (American)",
        recordings |-> << [keys |-> {"vowel", "f1"},
                           vowel |-> "/u/", f1 |-> Some(300),
                           f2 |-> None, f3 |-> None] >>]
  ELSE IF name = "null formant"
  THEN \* "f1": null
       [parses |-> TRUE, keys |-> {"session_name", "language", "recordings"},
        session_name |-> "Spanish vowels", language |-> "Spanish",
        recordings |-> << [keys |-> {"vowel", "f1", "f2"},
                           vowel |-> "/u/", f1 |-> None,
                           f2 |-> Some(700), f3 |-> None] >>]
  ELSE IF name = "zero third"
  THEN \* "f3": 0
       [parses |-> TRUE, keys |-> {"session_name", "language", "recordings"},
        session_name |-> "Spanish vowels", language |-> "Spanish",
        recordings |-> << [keys |-> {"vowel", "f1", "f2", "f3"},
                           vowel |-> "/i/", f1 |-> Some(250),
                           f2 |-> Some(2300), f3 |-> Some(0)] >>]
  ELSE [parses |-> FALSE, keys |-> {}, session_name |-> "", language |-> "",
        recordings |-> <<>>]

\* lines 313-320: one recording stored and plotted
StoreRecording(ss, r, third) ==
  [ss EXCEPT
     !.recorded_vowels =
        DictSet(@, r.vowel,
                [f1 |-> r.f1, f2 |-> r.f2, f3 |-> third, accuracy |-> None]),
     !.visualizer =
        Append(@, [label |-> r.vowel, F1 |-> r.f1, F2 |-> r.f2, F3 |-> third])]

\* the for loop of load_session_from_json, lines 311-320
RECURSIVE LoadRecordings(_, _)
LoadRecordings(ss, recs) ==
  IF recs = <<>> THEN [ok |-> TRUE, ss |-> ss]
  ELSE IF ~({"vowel", "f1", "f2"} \subseteq Head(recs).keys)
  THEN \* KeyError, caught at line 322
       [ok |-> FALSE, ss |-> ss]
  ELSE LoadRecordings(
         StoreRecording(ss, Head(recs),
                        IF "f3" \in Head(recs).keys THEN Head(recs).f3
                        ELSE None),
         Tail(recs))

\* lines 306-320, for the parsed data
LoadData(ss, data) ==
  LoadRecordings(
    [ss EXCEPT
       !.session_name = IF "session_name" \in data.keys
                        THEN data.session_name ELSE "Loaded Session",
       !.language_mode = IF "language" \in data.keys
                         THEN data.language ELSE "English",
       !.recorded_vowels = EmptyDict,
       !.visualizer = <<>>],
    IF "recordings" \in data.keys THEN data.recordings ELSE <<>>)

\* load_session_from_json: [ok |-> the value returned, ss |-> the state left]
LoadSessionFromJson(ss, name) ==
  IF ~SessionFile(name).parses THEN [ok |-> FALSE, ss |-> ss]
  ELSE LoadData(ss, SessionFile(name))

\* the symbols of the recorded vowels, in the order the dict is walked
Ipas == <<"/i/", "/u/">>

\* float(data['f3']) if data['f3'] else None
FloatIfTruthy(v) == IF v # None /\ v[1] # 0 THEN v ELSE None

\* lines 292-297: one entry of "recordings"
SavedRecording(vowel, data) ==
  [keys |-> {"vowel", "f1", "f2", "f3"}, vowel |-> vowel,
   f1 |-> data.f1, f2 |-> data.f2, f3 |-> FloatIfTruthy(data.f3)]

\* the for loop of save_session_to_json, lines 291-298
RECURSIVE SaveRecordings(_, _)
SaveRecordings(rv, ks) ==
  IF ks = <<>> THEN <<>>
  ELSE (IF Head(ks) \in DOMAIN rv
        THEN <<SavedRecording(Head(ks), rv[Head(ks)])>> ELSE <<>>)
       \o SaveRecordings(rv, Tail(ks))

\* float(data['f1']) and float(data['f2']) accept every recorded vowel
Saveable(ss) ==
  \A k \in DOMAIN ss.recorded_vowels :
    ss.recorded_vowels[k].f1 # None /\ ss.recorded_vowels[k].f2 # None

\* save_session_to_json: what json.loads makes of the string returned
SaveSessionToJson(ss) ==
  [parses |-> TRUE,
   keys |-> {"session_name", "timestamp", "language", "recordings"},
   session_name |-> ss.session_name, language |-> ss.language_mode,
   recordings |-> SaveRecordings(ss.recorded_vowels, Ipas)]

\* bool(v) for a formant: None and 0.0 are false
Truthy(v) == v # None /\ v[1] # 0

\* if f1:
FirstTruthy(a, b) == Truthy(a)

\* if f1 and f2:
BothTruthy(a, b) == Truthy(a) /\ Truthy(b)

\* the call calculate_vowel_accuracy(f1, f2, target_f1, target_f2) made by
\* a handler: the arguments passed, and the result or the TypeError that
\* None - target_f1 raises
ScorerCall(a, b, target) ==
  [call |-> <<a, b, target.target_f1, target.target_f2>>,
   raises |-> a = None \/ b = None,
   result |-> IF a = None \/ b = None THEN <<>>
              ELSE CalculateVowelAccuracy(a[1], b[1], target.target_f1,
                                          target.target_f2)]

\* lines 456-469: the result shown, stored and plotted
StoreAnalysis(ss, fs, target, c) ==
  IF c.raises
  THEN [ss |-> ss, shown |-> "error", call |-> c.call]
  ELSE [ss |-> [ss EXCEPT
                  !.recorded_vowels =
                     DictSet(@, target.ipa,
                             [f1 |-> fs[1], f2 |-> fs[2], f3 |-> fs[3],
                              accuracy |-> Some(c.result[1])]),
                  !.visualizer =
                     Append(@, [label |-> target.ipa, F1 |-> fs[1],
                                F2 |-> fs[2], F3 |-> fs[3]])],
        shown |-> "success", call |-> c.call]

\* lines 446-471, for the formants extracted
AnalyzeExtracted(ss, fs, target) ==
  IF Len(fs) # 3
  THEN \* f1, f2, f3 = formants: ValueError
       [ss |-> ss, shown |-> "error", call |-> None]
  ELSE IF BothTruthy(fs[1], fs[2])
  THEN StoreAnalysis(ss, fs, target, ScorerCall(fs[1], fs[2], target))
  ELSE [ss |-> ss, shown |-> "error", call |-> None]

\* the "Analyze Formants" handler, lines 439-473
AnalyzeFormants(ss, audio, target) ==
  IF ~Decodable(audio)
  THEN [ss |-> ss, shown |-> "error", call |-> None]
  ELSE AnalyzeExtracted(ss, ExtractFormantsHz(audio, 3), target)

\* lines 612-632: the result shown
ShowAccuracy(ss, c) ==
  [ss |-> ss, shown |-> IF c.raises THEN "error" ELSE "success",
   call |-> c.call]

\* lines 609-632, for the formants extracted
CheckExtracted(ss, fs, target) ==
  IF Len(fs) # 3
  THEN \* f1, f2, _ = formants: ValueError
       [ss |-> ss, shown |-> "error", call |-> None]
  ELSE IF BothTruthy(fs[1], fs[2])
  THEN ShowAccuracy(ss, ScorerCall(fs[1], fs[2], target))
  ELSE [ss |-> ss, shown |-> "", call |-> None]

\* the "Check Accuracy" handler, lines 602-635
CheckAccuracy(ss, audio, target) ==
  IF ~Decodable(audio)
  THEN [ss |-> ss, shown |-> "error", call |-> None]
  ELSE CheckExtracted(ss, ExtractFormantsHz(audio, 2), target)

\* the selectbox of the vowels of language l
SelectedVowel(w, l) ==
  IF w.selected_vowel \in DOMAIN VOWEL_SYSTEMS[l]
  THEN w.selected_vowel ELSE FirstVowel(l)

\* lines 432-437: the recording kept under the selected vowel's symbol
StoreAudio(ss, w, target) ==
  IF w.audio_bytes # ""
  THEN [ss EXCEPT !.audio_data = DictSet(@, target.ipa, w.audio_bytes)]
  ELSE ss

\* lines 475-515: the table of recorded vowels and its buttons
ShowRecordedVowels(handled, w, click, selected) ==
  IF \E k \in DOMAIN handled.ss.recorded_vowels :
       \/ handled.ss.recorded_vowels[k].f1 = None
       \/ handled.ss.recorded_vowels[k].f2 = None
  THEN \* f"{info['f1']:.0f}": TypeError, not caught
       [ss |-> handled.ss,
        outcome |-> <<"exception", "show_vowel_space_mode">>,
        call |-> handled.call,
        selected_vowel |-> selected, audio_bytes |-> w.audio_bytes]
  ELSE IF DOMAIN handled.ss.recorded_vowels # {} /\ click = "clear"
  THEN [ss |-> [handled.ss EXCEPT !.recorded_vowels = EmptyDict,
                                  !.visualizer = <<>>,
                                  !.audio_data = EmptyDict],
        outcome |-> <<"rerun", "show_vowel_space_mode">>,
        call |-> handled.call,
        selected_vowel |-> selected, audio_bytes |-> w.audio_bytes]
  ELSE [ss |-> handled.ss,
        outcome |-> <<IF handled.shown = "error" THEN "error" ELSE "ok",
                      "show_vowel_space_mode">>,
        call |-> handled.call,
        selected_vowel |-> selected, audio_bytes |-> w.audio_bytes]

\* lines 432-473: the recording stored and, on the button, analysed
RecordAndAnalyze(stored, w, click, target) ==
  IF w.audio_bytes # "" /\ click = "analyze"
  THEN AnalyzeFormants(stored, w.audio_bytes, target)
  ELSE [ss |-> stored, shown |-> "", call |-> None]

\* show_vowel_space_mode with the vowel selected, lines 415-515
ShowVowelSpaceFor(ss, w, click, selected, target) ==
  ShowRecordedVowels(
    RecordAndAnalyze(StoreAudio(ss, w, target), w, click, target),
    w, click, selected)

\* show_vowel_space_mode, lines 403-515
ShowVowelSpaceMode(ss, w, click) ==
  ShowVowelSpaceFor(
    ss, w, click, SelectedVowel(w, ss.language_mode),
    VOWEL_SYSTEMS[ss.language_mode][SelectedVowel(w, ss.language_mode)])

\* lines 599-635: what the run shows
ShowPracticeResult(handled, w, selected) ==
  [ss |-> handled.ss,
   outcome |-> <<IF handled.shown = "error" THEN "error" ELSE "ok",
                 "show_practice_mode">>,
   call |-> handled.call,
   selected_vowel |-> selected, audio_bytes |-> w.audio_bytes]

\* show_practice_mode with the vowel selected, lines 579-635
ShowPracticeFor(ss, w, click, selected, target) ==
  ShowPracticeResult(
    IF w.audio_bytes # "" /\ click = "check"
    THEN CheckAccuracy(ss, w.audio_bytes, target)
    ELSE [ss |-> ss, shown |-> "", call |-> None],
    w, selected)

\* show_practice_mode, lines 565-635
ShowPracticeMode(ss, w, click) ==
  ShowPracticeFor(
    ss, w, click, SelectedVowel(w, ss.language_mode),
    VOWEL_SYSTEMS[ss.language_mode][SelectedVowel(w, ss.language_mode)])

\* lines 391-401: the selected mode shown
ShowMode(ss, w, click) ==
  IF w.mode = "Vowel Space Analysis"
  THEN ShowVowelSpaceMode(ss, w, click)
  ELSE ShowPracticeMode(ss, w, click)

\* main() after the uploader, lines 362-401
AfterUpload(loaded, w, click) ==
  IF loaded.ok
  THEN \* st.rerun(), line 364
       [ss |-> loaded.ss, outcome |-> <<"rerun", "main">>,
        call |-> None, selected_vowel |-> "", audio_bytes |-> ""]
  ELSE IF loaded.ss.language_mode \notin DOMAIN VOWEL_SYSTEMS
  THEN \* list(VOWEL_SYSTEMS.keys()).index(...): ValueError, not caught
       [ss |-> loaded.ss, outcome |-> <<"exception", "main">>,
        call |-> None, selected_vowel |-> "", audio_bytes |-> ""]
  ELSE ShowMode([loaded.ss EXCEPT
                   !.language_mode =
                      IF w.language # "" THEN w.language ELSE @],
                w, click)

\* the run with the document the download button offers; a run that ends in
\* st.rerun() shows no button
Offered(run, document) ==
  [ss |-> run.ss, outcome |-> run.outcome, call |-> run.call,
   selected_vowel |-> run.selected_vowel, audio_bytes |-> run.audio_bytes,
   download |-> IF run.outcome[1] = "rerun" THEN None ELSE document]

\* main() after the session name, lines 347-401
SaveThenUpload(named, w, click) ==
  IF click = "save" /\ ~Saveable(named)
  THEN \* float(None): TypeError, not caught
       [ss |-> named, outcome |-> <<"exception", "main">>, call |-> None,
        selected_vowel |-> "", audio_bytes |-> "", download |-> None]
  ELSE Offered(
         AfterUpload(IF w.uploaded_file = "" THEN [ok |-> FALSE, ss |-> named]
                     ELSE LoadSessionFromJson(named, w.uploaded_file),
                     w, click),
         IF click = "save" THEN Some(SaveSessionToJson(named)) ELSE None)

\* one run of the script, main() from top to bottom, lines 326-401
ScriptRun(ss, w, click) ==
  SaveThenUpload(
    [ss EXCEPT !.session_name =
                  IF w.session_name # "" THEN w.session_name ELSE @],
    w, click)

\* the run that st.rerun() of "Clear All" starts, line 515
AfterClearAll(first, w) ==
  IF first.outcome = <<"rerun", "show_vowel_space_mode">>
  THEN ScriptRun(first.ss, [w EXCEPT !.language = "", !.session_name = ""],
                 "")
  ELSE first

\* a run and, when it ends in the st.rerun() of "Clear All", the run after
RunToRest(ss, w, click) == AfterClearAll(ScriptRun(ss, w, click), w)

VARIABLES
  y,                 \* the caller's recording
  segment_duration,  \* in quarter sample periods
  n_formants,
  lpc_order,
  pc,                \* position in the pipeline
  best_idx,          \* Some(start of the chosen window), or None
  segment,
  y_emphasized,
  r,                 \* the autocorrelation kept by _lpc
  lpc_coeffs,
  roots,
  formants,
  raised,            \* the exception that ended the call, or NoExc
  \* one caller of calculate_vowel_accuracy
  score_pc,          \* "called" or "returned" ("idle": no scorer call)
  f1,
  f2,
  target_f1,
  target_f2,
  accuracy,
  distance,
  previous,          \* <<accuracy, distance>> of the call before, or None
  \* the streamlit app: st.session_state
  session_name,
  language_mode,
  recorded_vowels,
  visualizer,        \* the list VowelSpaceVisualizer.recorded_vowels
  audio_data,
  \* the streamlit app: widgets
  mode,
  uploaded_file,
  selected_vowel,
  audio_bytes,
  \* the streamlit app: the last script run
  outcome,           \* <<how it ended, in which function>>
  scorer_call,       \* the arguments it passed to calculate_vowel_accuracy
  download           \* the document its download button offers, or None

pipeline_vars == <<y, segment_duration, n_formants, lpc_order, pc, best_idx,
                   segment, y_emphasized, r, lpc_coeffs, roots, formants,
                   raised>>

score_vars == <<score_pc, f1, f2, target_f1, target_f2, accuracy, distance,
                previous>>

app_vars == <<session_name, language_mode, recorded_vowels, visualizer,
              audio_data, mode, uploaded_file, selected_vowel, audio_bytes,
              outcome, scorer_call, download>>

vars == <<pipeline_vars, score_vars, app_vars>>

\* no pipeline call is under way
PipelineIdle ==
  /\ y = <<>>
  /\ segment_duration = 0
  /\ n_formants = 0
  /\ lpc_order = 0
  /\ pc = "idle"
  /\ best_idx = None
  /\ segment = <<>>
  /\ y_emphasized = <<>>
  /\ r = <<>>
  /\ lpc_coeffs = <<>>
  /\ roots = <<>>
  /\ formants = <<>>
  /\ raised = NoExc

\* no scorer call is under way
ScoreIdle ==
  /\ score_pc = "idle"
  /\ f1 = 0
  /\ f2 = 0
  /\ target_f1 = 0
  /\ target_f2 = 0
  /\ accuracy = None
  /\ distance = None
  /\ previous = None

\* no app is running
AppIdle ==
  /\ session_name = ""
  /\ download = None
  /\ language_mode = ""
  /\ recorded_vowels = EmptyDict
  /\ visualizer = <<>>
  /\ audio_data = EmptyDict
  /\ mode = ""
  /\ uploaded_file = ""
  /\ selected_vowel = ""
  /\ audio_bytes = ""
  /\ outcome = <<"", "">>
  /\ scorer_call = None

Init ==
  /\ ScoreIdle
  /\ AppIdle
  /\ y \in BoundedSeq(Amplitudes, MaxLen)
  /\ segment_duration \in Durations
  /\ n_formants \in FormantCounts
  /\ lpc_order \in Orders
  /\ pc = "start"
  /\ best_idx = None
  /\ segment = <<>>
  /\ y_emphasized = <<>>
  /\ r = <<>>
  /\ lpc_coeffs = <<>>
  /\ roots = <<>>
  /\ formants = <<>>
  /\ raised = NoExc

FindStableVowelSegment ==
  /\ pc = "start"
  /\ IF HopLength(segment_duration) = 0
     THEN \* range() arg 3 must not be zero
          /\ pc' = "raised"
          /\ raised' = Exc("ValueError", "find_stable_vowel_segment")
          /\ UNCHANGED <<best_idx, segment>>
     ELSE LET n == SegmentSamples(segment_duration)
              energies == Energies(y, segment_duration)
          IN  /\ pc' = "selected"
              /\ raised' = raised
              /\ IF energies # <<>>
                 THEN LET best == PyMax(energies)[1]
                      IN  /\ best_idx' = Some(best)
                          /\ segment' = PySlice(y, best, best + n)
                 ELSE /\ best_idx' = None
                      /\ segment' = MiddleSegment(y, segment_duration)
  /\ UNCHANGED <<y, segment_duration, n_formants, lpc_order, y_emphasized,
                 r, lpc_coeffs, roots, formants>>
  /\ UNCHANGED <<score_vars, app_vars>>

\* extract_formants, line 43
EmphasizeStep ==
  /\ pc = "selected"
  /\ IF Len(segment) = 0
     THEN \* y[0]: index 0 is out of bounds
          /\ pc' = "raised"
          /\ raised' = Exc("IndexError", "extract_formants")
          /\ UNCHANGED <<segment, y_emphasized>>
     ELSE /\ pc' = "emphasized"
          /\ y_emphasized' = PreEmphasis(segment)
          /\ segment' = InputAfterPreEmphasis(segment)
          /\ UNCHANGED raised
  /\ UNCHANGED <<y, segment_duration, n_formants, lpc_order, best_idx,
                 r, lpc_coeffs, roots, formants>>
  /\ UNCHANGED <<score_vars, app_vars>>

\* extract_formants, line 46
LpcStep ==
  /\ pc = "emphasized"
  /\ \E o \in Lpc(y_emphasized, lpc_order) :
       IF o.exc # ""
       THEN /\ pc' = "raised"
            /\ raised' = Exc(o.exc, "_lpc")
            /\ UNCHANGED lpc_coeffs
       ELSE /\ pc' = "lpc"
            /\ lpc_coeffs' = o.coeffs
            /\ UNCHANGED raised
  /\ r' = IF Len(y_emphasized) = 0 THEN r ELSE Autocorrelation(y_emphasized)
  /\ UNCHANGED <<y, segment_duration, n_formants, lpc_order, best_idx,
                 segment, y_emphasized, roots, formants>>
  /\ UNCHANGED <<score_vars, app_vars>>

\* extract_formants, line 49
RootsStep ==
  /\ pc = "lpc"
  /\ \E rs \in NpRoots(lpc_coeffs) : roots' = rs
  /\ pc' = "roots"
  /\ UNCHANGED <<y, segment_duration, n_formants, lpc_order, best_idx,
                 segment, y_emphasized, r, lpc_coeffs, formants, raised>>
  /\ UNCHANGED <<score_vars, app_vars>>

\* extract_formants, lines 51-73
FormantsStep ==
  /\ pc = "roots"
  /\ formants' = SelectFormants(roots, n_formants)
  /\ pc' = "done"
  /\ UNCHANGED <<y, segment_duration, n_formants, lpc_order, best_idx,
                 segment, y_emphasized, r, lpc_coeffs, roots, raised>>
  /\ UNCHANGED <<score_vars, app_vars>>

Next ==
  \/ FindStableVowelSegment
  \/ EmphasizeStep
  \/ LpcStep
  \/ RootsStep
  \/ FormantsStep

Spec == Init /\ [][Next]_vars

\* _lpc called on its own: any short array of small integer samples, any order.
LpcSamples == -1..2

LpcInit ==
  /\ ScoreIdle
  /\ AppIdle
  /\ y = <<>>
  /\ segment_duration = 0
  /\ n_formants = 0
  /\ lpc_order \in Orders
  /\ pc = "emphasized"
  /\ best_idx = None
  /\ segment = <<>>
  /\ y_emphasized \in BoundedSeq(LpcSamples, MaxLpcLen)
  /\ r = <<>>
  /\ lpc_coeffs = <<>>
  /\ roots = <<>>
  /\ formants = <<>>
  /\ raised = NoExc

LpcNext == LpcStep

LpcSpec == LpcInit /\ [][LpcNext]_vars

\* ---------------------------------------- the scorer called repeatedly
ScoreInit ==
  /\ PipelineIdle
  /\ AppIdle
  /\ score_pc = "called"
  /\ f1 \in ScoreHz
  /\ f2 \in ScoreHz
  /\ target_f1 \in ScoreHz
  /\ target_f2 \in ScoreHz
  /\ accuracy = None
  /\ distance = None
  /\ previous = None

\* calculate_vowel_accuracy, lines 274-281
CalculateVowelAccuracyStep ==
  /\ score_pc = "called"
  /\ LET result == CalculateVowelAccuracy(f1, f2, target_f1, target_f2)
     IN  /\ accuracy' = result[1]
         /\ distance' = result[2]
  /\ score_pc' = "returned"
  /\ UNCHANGED <<f1, f2, target_f1, target_f2, previous>>
  /\ UNCHANGED <<pipeline_vars, app_vars>>

\* the caller keeps the result and calls again with other frequencies
CallAgain ==
  /\ score_pc = "returned"
  /\ previous' = <<accuracy, distance>>
  /\ f1' \in ScoreHz
  /\ f2' \in ScoreHz
  /\ target_f1' \in ScoreHz
  /\ target_f2' \in ScoreHz
  /\ accuracy' = None
  /\ distance' = None
  /\ score_pc' = "called"
  /\ UNCHANGED <<pipeline_vars, app_vars>>

ScoreNext ==
  \/ CalculateVowelAccuracyStep
  \/ CallAgain

ScoreSpec == ScoreInit /\ [][ScoreNext]_vars

\* ------------------------------------------ the app, one run per action
SessionState ==
  [session_name |-> session_name, language_mode |-> language_mode,
   recorded_vowels |-> recorded_vowels, visualizer |-> visualizer,
   audio_data |-> audio_data]

Widgets ==
  [mode |-> mode, uploaded_file |-> uploaded_file, session_name |-> "",
   language |-> "", selected_vowel |-> selected_vowel,
   audio_bytes |-> audio_bytes]

\* the names a session gets: at its start, typed by the user, from a file
StartName == "Session_20261102_093000"

TypedNames == {"my vowels"}

\* lines 64-73
FreshSession ==
  [session_name |-> StartName, language_mode |-> "English",
   recorded_vowels |-> EmptyDict, visualizer |-> <<>>,
   audio_data |-> EmptyDict]

\* the widgets as first shown
FreshWidgets ==
  [mode |-> "Vowel Space Analysis", uploaded_file |-> "",
   session_name |-> "", language |-> "", selected_vowel |-> "",
   audio_bytes |-> ""]

\* the last run got past the sidebar into one of the modes
BodyReached == outcome[2] \in {"show_vowel_space_mode", "show_practice_mode"}

\* the variables after a run made with the widgets w
Left(run, w) ==
  /\ session_name' = run.ss.session_name
  /\ download' = run.download
  /\ language_mode' = run.ss.language_mode
  /\ recorded_vowels' = run.ss.recorded_vowels
  /\ visualizer' = run.ss.visualizer
  /\ audio_data' = run.ss.audio_data
  /\ mode' = w.mode
  /\ uploaded_file' = w.uploaded_file
  /\ selected_vowel' = run.selected_vowel
  /\ audio_bytes' = run.audio_bytes
  /\ outcome' = run.outcome
  /\ scorer_call' = run.call

\* a run of the script with the widgets w and the button click
Rerun(w, click) ==
  /\ Left(RunToRest(SessionState, w, click), w)
  /\ UNCHANGED <<pipeline_vars, score_vars>>

\* the variables after the first run
FirstLeft(run) ==
  /\ session_name = run.ss.session_name
  /\ download = run.download
  /\ language_mode = run.ss.language_mode
  /\ recorded_vowels = run.ss.recorded_vowels
  /\ visualizer = run.ss.visualizer
  /\ audio_data = run.ss.audio_data
  /\ mode = FreshWidgets.mode
  /\ uploaded_file = FreshWidgets.uploaded_file
  /\ selected_vowel = run.selected_vowel
  /\ audio_bytes = run.audio_bytes
  /\ outcome = run.outcome
  /\ scorer_call = run.call

\* the first run of the script in a new session
AppInit ==
  /\ PipelineIdle
  /\ ScoreIdle
  /\ FirstLeft(RunToRest(FreshSession, FreshWidgets, ""))

\* the user types a session name, lines 342-345
RenameSession ==
  \E name \in TypedNames :
    /\ name # session_name
    /\ Rerun([Widgets EXCEPT !.session_name = name], "")

\* the "Save" button, line 349
ClickSave == Rerun(Widgets, "save")

\* the user puts a file into the uploader, line 359
UploadFile ==
  \E name \in SessionFiles :
    /\ name # uploaded_file
    /\ Rerun([Widgets EXCEPT !.uploaded_file = name], "")

\* the user takes the file out of the uploader
RemoveUpload ==
  /\ uploaded_file # ""
  /\ Rerun([Widgets EXCEPT !.uploaded_file = ""], "")

\* the mode radio, lines 334-337: the other mode shows its own widgets
SelectMode ==
  \E m \in Modes :
    /\ m # mode
    /\ Rerun([Widgets EXCEPT !.mode = m, !.selected_vowel = "",
                             !.audio_bytes = ""], "")

\* the language selectbox, lines 368-372
SelectLanguage ==
  \E l \in DOMAIN VOWEL_SYSTEMS :
    /\ BodyReached
    /\ l # language_mode
    /\ Rerun([Widgets EXCEPT !.language = l], "")

\* the vowel selectbox, line 413 or 578
SelectVowel ==
  /\ BodyReached
  /\ \E v \in DOMAIN VOWEL_SYSTEMS[language_mode] :
       /\ v # selected_vowel
       /\ Rerun([Widgets EXCEPT !.selected_vowel = v], "")

\* the audio recorder, line 424 or 592
RecordAudio ==
  \E a \in Recordings :
    /\ BodyReached
    /\ a # audio_bytes
    /\ Rerun([Widgets EXCEPT !.audio_bytes = a], "")

\* the "Analyze Formants" button, line 439
ClickAnalyzeFormants ==
  /\ BodyReached
  /\ mode = "Vowel Space Analysis"
  /\ audio_bytes # ""
  /\ Len(visualizer) < MaxPoints
  /\ Rerun(Widgets, "analyze")

\* the "Clear All" button, line 511
ClickClearAll ==
  /\ outcome = <<"ok", "show_vowel_space_mode">>
     \/ outcome = <<"error", "show_vowel_space_mode">>
  /\ mode = "Vowel Space Analysis"
  /\ DOMAIN recorded_vowels # {}
  /\ Rerun(Widgets, "clear")

\* the "Check Accuracy" button, line 602
ClickCheckAccuracy ==
  /\ BodyReached
  /\ mode = "Practice Mode"
  /\ audio_bytes # ""
  /\ Rerun(Widgets, "check")

AppNext ==
  \/ RenameSession
  \/ ClickSave
  \/ UploadFile
  \/ RemoveUpload
  \/ SelectMode
  \/ SelectLanguage
  \/ SelectVowel
  \/ RecordAudio
  \/ ClickAnalyzeFormants
  \/ ClickClearAll
  \/ ClickCheckAccuracy

AppSpec == AppInit /\ [][AppNext]_vars

\* ------------------------------------------------------------ properties
\* find_stable_vowel_segment has returned a segment to its caller
SegmentReturned ==
  /\ pc # "start"
  /\ ~(pc = "raised" /\ raised[2] = "find_stable_vowel_segment")

\* _lpc has returned its coefficients
LpcReturned == pc \in {"lpc", "roots", "done"}

RaisedIn(where) == pc = "raised" /\ raised[2] = where

IsSilent(s) == \A i \in 1..Len(s) : s[i] = 0

AllAbsent(fs) == \A i \in 1..Len(fs) : fs[i] = None

\* C1: for a non-empty sample sequence and n_formants >= 1 (lpc_order >= 1),
\* extract_formants raises nothing and returns exactly n_formants entries,
\* each a frequency or None.
C1_ExactlyNFormants ==
  (Len(segment) >= 1 /\ n_formants >= 1 /\ lpc_order >= 1) =>
    /\ ~RaisedIn("extract_formants")
    /\ ~RaisedIn("_lpc")
    /\ pc = "done" =>
         /\ Len(formants) = n_formants
         /\ \A i \in 1..Len(formants) :
              formants[i] = None \/ (Len(formants[i]) = 1 /\ formants[i][1] \in Int)

\* a solved model with one detected and one absent formant
C1_Witness ==
  /\ pc = "done"
  /\ n_formants = 2
  /\ lpc_order >= 1
  /\ lpc_coeffs # Fallback(lpc_order)
  /\ formants[1] # None
  /\ formants[2] = None

\* C2 (as stated): for every input length and window length the returned
\* segment has exactly min(segmentSamples, len(samples)) samples.
C2_LengthIsMin ==
  SegmentReturned =>
    Len(segment) = Min(SegmentSamples(segment_duration), Len(y))

\* C3 (as stated): a signal shorter than segmentSamples is returned whole.
C3_ShortSignalReturnedWhole ==
  (SegmentReturned /\ Len(y) < SegmentSamples(segment_duration)) => segment = y

\* C4: for a silent non-empty signal and order >= 1, _lpc returns the
\* fallback [1, 0, ..., 0] with `order` zeros and extract_formants returns
\* only absent entries, without raising.
C4_SilenceGivesFallback ==
  (Len(segment) >= 1 /\ IsSilent(segment) /\ lpc_order >= 1) =>
    /\ ~RaisedIn("extract_formants")
    /\ ~RaisedIn("_lpc")
    /\ LpcReturned =>
         /\ lpc_coeffs = [i \in 1..(lpc_order + 1) |-> IF i = 1 THEN One ELSE Zero]
    /\ pc = "done" => AllAbsent(formants)

\* a silent segment longer than the order (the singular solve), resolved
C4_Witness ==
  /\ pc = "done"
  /\ IsSilent(segment)
  /\ lpc_order = 2
  /\ Len(segment) > lpc_order
  /\ n_formants = 2
  /\ formants = <<None, None>>

\* C5: for order >= 1 and a non-empty sample sequence, _lpc raises nothing
\* and returns order + 1 coefficients, the first exactly 1.
C5_LpcModelShape ==
  (Len(segment) >= 1 /\ lpc_order >= 1) =>
    /\ ~RaisedIn("_lpc")
    /\ LpcReturned =>
         /\ Len(lpc_coeffs) = lpc_order + 1
         /\ lpc_coeffs[1] = One

\* _lpc returned for a sequence no longer than the order
C5_Witness ==
  /\ pc = "lpc"
  /\ lpc_order >= 1
  /\ Len(y_emphasized) >= 1
  /\ Len(y_emphasized) <= lpc_order
  /\ ~IsSilent(y_emphasized)

\* a recording and configuration within the contract
ValidCall ==
  /\ Len(y) >= 1
  /\ HopLength(segment_duration) >= 1
  /\ lpc_order >= 1
  /\ n_formants >= 1

\* C6: for a non-empty recording (window of at least one hop, order >= 1,
\* n_formants >= 1) no stage of the chain raises: every stage hands a usable
\* value to the next (a non-empty segment, order + 1 coefficients, `order`
\* roots) and the chain ends with a FormantSet of n_formants entries.
C6_ChainCompletes ==
  ValidCall =>
    /\ pc # "raised"
    /\ raised = NoExc
    /\ SegmentReturned => Len(segment) >= 1
    /\ pc \in {"emphasized", "lpc", "roots", "done"} =>
         Len(y_emphasized) = Len(segment)
    /\ LpcReturned => Len(lpc_coeffs) = lpc_order + 1
    /\ pc \in {"roots", "done"} => Len(roots) = lpc_order
    /\ pc = "done" => Len(formants) = n_formants

\* a one-sample recording carried through to an all-absent FormantSet
C6_Witness ==
  /\ ValidCall
  /\ pc = "done"
  /\ Len(y) = 1
  /\ Len(segment) = 1
  /\ AllAbsent(formants)

\* C7 (as stated): find_stable_vowel_segment raises for no combination of
\* input length and window length.
C7_SelectorNeverRaises == ~RaisedIn("find_stable_vowel_segment")

\* C8 (as stated): a call with n_formants <= 0, lpc_order <= 0 or an empty
\* sample sequence never returns an ordinary result.
C8_MisuseRejected ==
  /\ (n_formants <= 0 \/ lpc_order <= 0) => pc # "done"
  /\ Len(y) = 0 => ~SegmentReturned

\* C9 (as stated): when the signal holds a full window, the returned segment
\* has at least the energy of every full window starting at a multiple of
\* the hop, the one ending at the last sample included.
C9_MaxEnergyWindow ==
  (SegmentReturned /\ Len(y) >= SegmentSamples(segment_duration)) =>
    LET n == SegmentSamples(segment_duration)
        hop == HopLength(segment_duration)
    IN  \A i \in 0..(Len(y) - n) :
          i % hop = 0 => Energy(segment) >= Energy(PySlice(y, i, i + n))

\* C10: among the candidate windows of largest energy, the one with the
\* smallest starting index is returned.
C10_EarliestMaximumWins ==
  (SegmentReturned /\ best_idx # None) =>
    LET n == SegmentSamples(segment_duration)
        es == Energies(y, segment_duration)
        b == best_idx[1]
    IN  /\ segment = PySlice(y, b, b + n)
        /\ \E k \in 1..Len(es) : es[k][1] = b
        /\ \A k \in 1..Len(es) :
             /\ es[k][2] <= Energy(segment)
             /\ es[k][2] = Energy(segment) => b <= es[k][1]

\* two candidate windows tie for the largest energy
C10_Witness ==
  /\ SegmentReturned
  /\ best_idx # None
  /\ Energy(segment) > 0
  /\ LET es == Energies(y, segment_duration)
     IN  \E k \in 1..Len(es) :
           es[k][1] > best_idx[1] /\ es[k][2] = Energy(segment)

\* C20 (as stated): the window length is segment_duration * sr rounded to
\* the nearest integer: a window taken from a long enough signal has that
\* many samples.
C20_WindowLengthRounded ==
  (SegmentReturned /\ best_idx # None /\ Len(y) >= PyRound(segment_duration)) =>
    Len(segment) = PyRound(segment_duration)

\* C20 (amended): the window length is segment_duration * sr truncated
\* toward zero: the largest integer not above the product.
C20_WindowLengthTruncated ==
  (SegmentReturned /\ best_idx # None) =>
    /\ 4 * Len(segment) <= segment_duration
    /\ segment_duration < 4 * (Len(segment) + 1)

\* a window of 4 samples taken for a product of 4.75
C20_Witness ==
  /\ SegmentReturned
  /\ best_idx # None
  /\ segment_duration = 19
  /\ Len(segment) = 4

\* the pre-emphasis statement of extract_formants has been executed
Emphasized == pc \in {"emphasized", "lpc", "roots", "done"} \/ RaisedIn("_lpc")

\* coefficients a caller might ask for, as <<numerator, denominator>>
CoefficientChoices == {<<97, 100>>, <<1, 2>>}

\* out (in hundredths) is the pre-emphasis of in with coefficient c
IsPreEmphasisOf(out, in, c) ==
  /\ Len(out) = Len(in)
  /\ out[1] = PreDen * in[1]
  /\ \A k \in 2..Len(in) :
       c[2] * out[k] = PreDen * (c[2] * in[k] - c[1] * in[k - 1])

StrictlyInside(root) ==
  IF root[2] = 0
  THEN root[1] < root[3] /\ 0 - root[1] < root[3]
  ELSE root[1] * root[1] + root[2] * root[2] < root[3] * root[3]

\* positions of the roots that qualify: strictly inside the unit circle and
\* of strictly positive frequency
Qualifying(rs) ==
  {k \in 1..Len(rs) : StrictlyInside(rs[k]) /\ Frequency(rs[k]) > 0}

Present(fs) == {i \in 1..Len(fs) : fs[i] # None}

\* C12: the present formants are in non-decreasing order, they are the
\* n_formants lowest qualifying frequencies, and absent entries come only
\* after the present ones.
C12_LowestSortedThenAbsent ==
  (pc = "done" /\ n_formants >= 1) =>
    LET q == Qualifying(roots)
        p == Present(formants)
    IN  /\ \A i, j \in p : i < j => formants[i][1] <= formants[j][1]
        /\ \A i, j \in 1..Len(formants) :
             (i < j /\ formants[i] = None) => formants[j] = None
        /\ Cardinality(p) = Min(n_formants, Cardinality(q))
        /\ \A i \in p :
             /\ \E k \in q : Frequency(roots[k]) = formants[i][1]
             /\ Cardinality({k \in q : Frequency(roots[k]) < formants[i][1]}) < i
             /\ Cardinality({k \in q : Frequency(roots[k]) <= formants[i][1]}) >= i

\* two qualifying roots, the higher frequency first, one formant asked for
C12_Witness ==
  /\ pc = "done"
  /\ n_formants = 1
  /\ Len(roots) = 2
  /\ Qualifying(roots) = {1, 2}
  /\ Frequency(roots[1]) > Frequency(roots[2])
  /\ formants = <<Some(Frequency(roots[2]))>>

\* C13: a root contributes a formant only if it is strictly inside the unit
\* circle and its frequency is strictly positive; when no root qualifies the
\* result is n_formants absent entries and nothing is raised.
C13_OnlyQualifyingRootsContribute ==
  (pc = "done" /\ n_formants >= 1) =>
    /\ \A i \in Present(formants) :
         \E k \in Qualifying(roots) : Frequency(roots[k]) = formants[i][1]
    /\ Qualifying(roots) = {} =>
         /\ Len(formants) = n_formants
         /\ AllAbsent(formants)
         /\ raised = NoExc

\* roots on the unit circle only: none contributes
C13_Witness ==
  /\ pc = "done"
  /\ n_formants >= 1
  /\ roots # <<>>
  /\ \A k \in 1..Len(roots) :
       ~StrictlyInside(roots[k]) /\ Frequency(roots[k]) > 0
  /\ AllAbsent(formants)

SurdComparable(u, v) ==
  \/ u[2] = 0
  \/ v[2] = 0
  \/ (u[1] = v[1] /\ u[2] = v[2] /\ u[4] = v[4])

SurdLeq(u, v) ==
  IF u[2] # 0 /\ v[2] # 0
  THEN /\ u[1] = v[1] /\ u[2] = v[2] /\ u[4] = v[4]
       /\ IF u[2] > 0 THEN u[3] <= v[3] ELSE u[3] >= v[3]
  ELSE SurdNonNegative(<<v[1] * u[4] - u[1] * v[4], v[2] * u[4] - u[2] * v[4],
                         IF v[2] # 0 THEN v[3] ELSE u[3], u[4] * v[4]>>)

\* C14: scoring a measurement equal to the target gives distance 0 and
\* score exactly 100.
C14_TargetScoresHundred ==
  (score_pc = "returned" /\ f1 = target_f1 /\ f2 = target_f2) =>
    /\ distance = SurdInt(0)
    /\ accuracy = SurdInt(100)

\* the target (280, 2250) scored against itself
C14_Witness ==
  /\ score_pc = "returned"
  /\ f1 = 280 /\ target_f1 = 280
  /\ f2 = 2250 /\ target_f2 = 2250
  /\ accuracy = SurdInt(100)

\* normalisation distances a caller might ask for, in hertz
MaxDistanceChoices == {1000, 500}

\* of two calls, the one with the larger distance has no larger score
ScoreMonotone ==
  (score_pc = "returned" /\ previous # None) =>
    /\ SurdComparable(previous[2], distance)
    /\ SurdComparable(accuracy, previous[1])
    /\ SurdLeq(previous[2], distance) => SurdLeq(accuracy, previous[1])

C16_ScoreAndDistanceInRange ==
  score_pc = "returned" =>
    /\ SurdNonNegative(accuracy)
    /\ SurdNonNegative(SurdIntMinus(100, accuracy))
    /\ SurdNonNegative(distance)

\* a measurement farther than 1000 Hz from its target, scored 0
C16_Witness ==
  /\ score_pc = "returned"
  /\ f1 = 2250 /\ target_f1 = 0
  /\ ~SurdLeq(distance, SurdInt(1000))
  /\ accuracy = SurdInt(0)

\* C17: on every path of the app, calculate_vowel_accuracy is invoked only
\* after F1 and F2 were both found present: the arguments a run passes to it
\* are two frequencies, never an absent formant.
C17_ScorerCalledWithBothFormants ==
  scorer_call # None =>
    /\ scorer_call[1] # None
    /\ scorer_call[2] # None

\* a run whose analysis found two formants and scored them
C17_Witness ==
  /\ mode = "Vowel Space Analysis"
  /\ outcome = <<"ok", "show_vowel_space_mode">>
  /\ audio_bytes = "vowel"
  /\ scorer_call = <<Some(2000), Some(6000), 300, 700>>

\* ---- the autocorrelation and the Toeplitz system of _lpc ----

\* sum over i of v[i] * v[i + k], the products of samples k apart
LagSum(v, k) ==
  SumSeq([i \in 1..(Len(v) - k) |-> v[i] * v[i + k]])

\* C21: for samples of length n the autocorrelation kept by _lpc has exactly
\* n entries, entry k being the sum of samples[i] * samples[i+k] for
\* k = 0..n-1; entry 0 is the energy and no negative lag is kept.
C21_AutocorrelationNonNegativeLags ==
  (pc = "lpc" /\ Len(y_emphasized) > 0) =>
    /\ Len(r) = Len(y_emphasized)
    /\ \A k \in 0..(Len(y_emphasized) - 1) : r[k + 1] = LagSum(y_emphasized, k)
    /\ r[1] = Energy(y_emphasized)

C21_Witness ==
  /\ pc = "lpc"
  /\ Len(y_emphasized) = 3
  /\ r = <<6, 1, -2>>

\* the symmetric Toeplitz system of the given order has exactly one solution
Solvable(c, order) ==
  \/ order = 1 /\ c[1] # 0
  \/ order = 2 /\ c[1] * c[1] # c[2] * c[2]

\* a, the negation of the coefficients after the leading one
SolutionOf(coeffs) ==
  [j \in 1..(Len(coeffs) - 1) |-> <<0 - coeffs[j + 1][1], coeffs[j + 1][2]>>]

\* the product of the denominators of a, the one at position skip left out
DenominatorsExcept(a, skip) ==
  IF Len(a) = 1 THEN (IF skip = 1 THEN 1 ELSE a[1][2])
  ELSE (IF skip = 1 THEN 1 ELSE a[1][2]) * (IF skip = 2 THEN 1 ELSE a[2][2])

\* row i of the system: the sum over j of c[|i-j|] * a[j] equals c[i]
ToeplitzRowHolds(c, a, i) ==
  SumSeq([j \in 1..Len(a) |->
            c[Abs(i - j) + 1] * a[j][1] * DenominatorsExcept(a, j)])
    = c[i + 1] * DenominatorsExcept(a, 0)

\* C22: when order < len(samples) and the system is solvable, _lpc returns
\* [1, -a[0], ..., -a[order-1]] where a solves the symmetric Toeplitz system
\* whose matrix entry (i, j) is r[|i-j|] and whose right-hand side is
\* r[1..order].
C22_CoefficientsSolveToeplitz ==
  (/\ pc = "lpc"
   /\ lpc_order \in 1..2
   /\ lpc_order < Len(y_emphasized)
   /\ Solvable(r, lpc_order)) =>
    /\ Len(lpc_coeffs) = lpc_order + 1
    /\ lpc_coeffs[1] = One
    /\ \A i \in 1..lpc_order :
         /\ lpc_coeffs[i + 1][2] # 0
         /\ ToeplitzRowHolds(r, SolutionOf(lpc_coeffs), i)

C22_Witness ==
  /\ pc = "lpc"
  /\ lpc_order = 2
  /\ Len(y_emphasized) = 4
  /\ Solvable(r, 2)
  /\ r[2] # 0
  /\ r[3] # 0
  /\ ~IsZero(lpc_coeffs[2])
  /\ ~IsZero(lpc_coeffs[3])

\* ---- the range of the returned frequencies ----

\* C30: every present frequency returned by extract_formants is greater
\* than zero and at most half the sample rate.
C30_FrequenciesUpToNyquist ==
  pc = "done" =>
    \A i \in Present(formants) :
      /\ formants[i][1] > 0
      /\ formants[i][1] <= 4 * sr

C30_Witness ==
  /\ pc = "done"
  /\ \E i \in Present(formants) : formants[i][1] = 4 * sr
  /\ \E k \in 1..Len(roots) : roots[k][1] < 0 /\ roots[k][2] = 0

\* ---- the session of the streamlit app ----

\* extract_formants(n_formants=2) detects both F1 and F2 in the recording
BothDetected(audio) ==
  /\ Decodable(audio)
  /\ ExtractFormantsHz(audio, 2)[1] # None
  /\ ExtractFormantsHz(audio, 2)[2] # None

\* the targets of the vowel shown in the selectbox
SelectedTarget ==
  VOWEL_SYSTEMS[language_mode][SelectedVowel(Widgets, language_mode)]

\* C23: in practice mode, pressing Check Accuracy on a recording in which
\* both F1 and F2 are detected computes the accuracy against the selected
\* vowel's targets and shows the score; the analysis does not end in the
\* error branch.
C23_CheckAccuracyShowsScore ==
  [][(ClickCheckAccuracy /\ BothDetected(audio_bytes)) =>
       /\ outcome' = <<"ok", "show_practice_mode">>
       /\ scorer_call' # None
       /\ scorer_call'[3] = SelectedTarget.target_f1
       /\ scorer_call'[4] = SelectedTarget.target_f2]_vars

\* the point the visualizer should hold for the vowel k
PointOf(k) ==
  [label |-> k, F1 |-> recorded_vowels[k].f1, F2 |-> recorded_vowels[k].f2,
   F3 |-> recorded_vowels[k].f3]

\* C24: after any sequence of Analyze Formants, Clear All and Load Session
\* the visualizer's list holds exactly one entry per key of the session's
\* recorded_vowels map, with the same F1, F2 and F3; re-analysing a vowel
\* leaves no stale point.
C24_VisualizerMirrorsRecordedVowels ==
  /\ Len(visualizer) = Cardinality(DOMAIN recorded_vowels)
  /\ \A k \in DOMAIN recorded_vowels :
       \E i \in 1..Len(visualizer) : visualizer[i] = PointOf(k)

\* C25: when load_session_from_json fails it returns False and leaves
\* session_name, language_mode, recorded_vowels and the visualizer as they
\* were; the session is never partially replaced.
C25_FailedLoadLeavesSession ==
  [][(UploadFile /\ ~LoadSessionFromJson(SessionState, uploaded_file').ok) =>
       /\ session_name' = session_name
       /\ language_mode' = language_mode
       /\ recorded_vowels' = recorded_vowels
       /\ visualizer' = visualizer]_vars

\* C26: in every reachable session state, the initial one and the one after
\* loading any file included, language_mode is a key of VOWEL_SYSTEMS.
C26_LanguageModeIsKey == language_mode \in DOMAIN VOWEL_SYSTEMS

\* C27: every entry of recorded_vowels has a present F1 and F2, after any
\* analyses and loads.
C27_RecordedFormantsPresent ==
  \A k \in DOMAIN recorded_vowels :
    recorded_vowels[k].f1 # None /\ recorded_vowels[k].f2 # None

\* the run showed the table of recorded vowels and the playback list
PlaybackShown ==
  outcome \in {<<"ok", "show_vowel_space_mode">>,
               <<"error", "show_vowel_space_mode">>}

\* C28: whenever the playback list offers audio for a vowel, that audio is
\* the recording from which the vowel's stored formants were computed.
C28_PlaybackIsAnalysedRecording ==
  PlaybackShown =>
    \A k \in (DOMAIN recorded_vowels) \cap (DOMAIN audio_data) :
      /\ Decodable(audio_data[k])
      /\ ExtractFormantsHz(audio_data[k], 3) =
           <<recorded_vowels[k].f1, recorded_vowels[k].f2,
             recorded_vowels[k].f3>>

\* loading the document gives back the name, the language and the formants
\* of the session ss
Restores(loaded, ss) ==
  /\ loaded.ok
  /\ loaded.ss.session_name = ss.session_name
  /\ loaded.ss.language_mode = ss.language_mode
  /\ DOMAIN loaded.ss.recorded_vowels = DOMAIN ss.recorded_vowels
  /\ \A k \in DOMAIN ss.recorded_vowels :
       /\ loaded.ss.recorded_vowels[k].f1 = ss.recorded_vowels[k].f1
       /\ loaded.ss.recorded_vowels[k].f2 = ss.recorded_vowels[k].f2
       /\ loaded.ss.recorded_vowels[k].f3 = ss.recorded_vowels[k].f3

\* C29: save_session_to_json followed by load_session_from_json restores
\* the same session_name, language_mode and each vowel's F1, F2 and F3.
C29_SaveThenLoadRestores ==
  [][download' # None =>
       Restores(LoadData(FreshSession, download'[1]), SessionState)]_vars

====
